---- MODULE Spec2Model ----
(***************************************************************************)
(* SSH agent client (src/src/client.rs): connect() turning a               *)
(* service_binding::Stream into a Client, and the Session operations of    *)
(* Client, all built on Client::handle (send one Request, read one         *)
(* Response).                                                              *)
(***************************************************************************)
EXTENDS Integers, Sequences, FiniteSets, TLC

(* ---------------------------- bounds ---------------------------------- *)
\* the pipe server answers "busy" at most this many times in a row
MaxBusy == 20
\* number of operation calls started on the Session in one behaviour
MaxCalls == 3
\* number of unsolicited / malformed frames the peer may inject
MaxInject == 1

(* ------------------------ program constants --------------------------- *)
ERROR_PIPE_BUSY == 231
SleepMillis == 50

(* ------------------------------ values -------------------------------- *)
Callers == {"t1", "t2"}
NoCaller == "nobody"

Platforms == {"unix", "windows"}

\* service_binding::Stream variants that exist on a platform
StreamKinds(p) == IF p = "unix" THEN {"Unix", "Tcp", "NamedPipe"}
                                ELSE {"Tcp", "NamedPipe"}

\* raw_os_error() of a failed open: <<>> is None, <<c>> is Some(c)
OtherOsErrors == {<<>>, <<2>>}
OpenErrors == OtherOsErrors \cup {<<ERROR_PIPE_BUSY>>}

IdentityLists == {<<>>, <<"idA">>, <<"idA", "idB">>, <<"idB", "idA">>,
                  <<"idA", "idA">>}
Signatures == {"sig1", "sig2"}
Extensions == {"ext1", "ext2"}

\* Response values (crate::proto::Response); body is always a sequence
Resp(tag, body) == [tag |-> tag, body |-> body]
Responses ==
    {Resp("Failure", <<>>), Resp("Success", <<>>)}
    \cup {Resp("IdentitiesAnswer", l) : l \in IdentityLists}
    \cup {Resp("SignResponse", <<s>>) : s \in Signatures}
    \cup {Resp("ExtensionResponse", <<e>>) : e \in Extensions}

\* errors: the enum variant (of ProtoError, or a bare io::Error), the
\* io::ErrorKind, the message and raw_os_error()
Error(variant, kind, msg, os) ==
    [variant |-> variant, kind |-> kind, msg |-> msg, os |-> os]
NoError == Error("none", "", "", <<>>)
UnexpectedResponse == Error("UnexpectedResponse", "", "", <<>>)
\* ProtoError::IO(std::io::Error::other(msg))
IoOther(msg) == Error("IO", "Other", msg, <<>>)
\* a bare std::io::Error of the operating system
OsError(code) == Error("io::Error", "Os", "os error", code)
\* errors the Framed adapter itself reports: I/O errors of the stream
IoErrors == {Error("IO", "BrokenPipe", "os error", <<32>>),
             Error("IO", "Other", "os error", <<>>)}
\* faulty variant: undecodable bytes reported in the I/O variant
DecodeError_AsIo == Error("IO", "InvalidData", "malformed", <<>>)

\* the codec's error for bytes that are no Response
DecodeError == Error("Decode", "", "malformed", <<>>)

\* Result<T, E>
Ok(type, v) == [ok |-> TRUE, type |-> type, val |-> v, err |-> NoError]
Err(e) == [ok |-> FALSE, type |-> "", val |-> <<>>, err |-> e]
NoResult == [ok |-> FALSE, type |-> "pending", val |-> <<>>, err |-> NoError]

(* --------------------- the Session operations ------------------------- *)
\* each operation, applied to the Response that handle returned
\* faulty variant: the identities come back in reverse order
request_identities_Reversed(r) ==
    IF r.tag = "IdentitiesAnswer"
    THEN Ok("Vec<Identity>", [i \in 1..Len(r.body) |-> r.body[Len(r.body) + 1 - i]])
    ELSE Err(UnexpectedResponse)

request_identities(r) ==
    IF r.tag = "IdentitiesAnswer" THEN Ok("Vec<Identity>", r.body)
                                  ELSE Err(UnexpectedResponse)

\* faulty variant: sign copied from a mutating operation
sign_ExpectsSuccess(r) ==
    IF r.tag = "Success" THEN Ok("Signature", r.body) ELSE Err(UnexpectedResponse)

sign(r) ==
    IF r.tag = "SignResponse" THEN Ok("Signature", r.body)
                              ELSE Err(UnexpectedResponse)

add_identity(r) ==
    IF r.tag = "Success" THEN Ok("()", <<>>) ELSE Err(UnexpectedResponse)

add_identity_constrained(r) ==
    IF r.tag = "Success" THEN Ok("()", <<>>) ELSE Err(UnexpectedResponse)

remove_identity(r) ==
    IF r.tag = "Success" THEN Ok("()", <<>>) ELSE Err(UnexpectedResponse)

remove_all_identities(r) ==
    IF r.tag = "Success" THEN Ok("()", <<>>) ELSE Err(UnexpectedResponse)

add_smartcard_key(r) ==
    IF r.tag = "Success" THEN Ok("()", <<>>) ELSE Err(UnexpectedResponse)

add_smartcard_key_constrained(r) ==
    IF r.tag = "Success" THEN Ok("()", <<>>) ELSE Err(UnexpectedResponse)

remove_smartcard_key(r) ==
    IF r.tag = "Success" THEN Ok("()", <<>>) ELSE Err(UnexpectedResponse)

\* faulty variant: lock does not look at the Response
lock_IgnoresReply(r) == Ok("()", <<>>)

lock(r) ==
    IF r.tag = "Success" THEN Ok("()", <<>>) ELSE Err(UnexpectedResponse)

unlock(r) ==
    IF r.tag = "Success" THEN Ok("()", <<>>) ELSE Err(UnexpectedResponse)

\* faulty variant: the payload of an ExtensionResponse is dropped
extension_DropsPayload(r) ==
    IF r.tag \in {"Success", "ExtensionResponse"}
    THEN Ok("Option<Extension>", <<>>)
    ELSE Err(UnexpectedResponse)

\* Option<Extension>: <<>> is None, <<e>> is Some(e)
extension(r) ==
    CASE r.tag = "Success" -> Ok("Option<Extension>", <<>>)
      [] r.tag = "ExtensionResponse" -> Ok("Option<Extension>", r.body)
      [] OTHER -> Err(UnexpectedResponse)

Operations ==
    {"request_identities", "sign", "add_identity", "add_identity_constrained",
     "remove_identity", "remove_all_identities", "add_smartcard_key",
     "add_smartcard_key_constrained", "remove_smartcard_key", "lock", "unlock",
     "extension"}

\* the Request variant each operation hands to handle
RequestOf(op) ==
    CASE op = "request_identities" -> "RequestIdentities"
      [] op = "sign" -> "SignRequest"
      [] op = "add_identity" -> "AddIdentity"
      [] op = "add_identity_constrained" -> "AddIdConstrained"
      [] op = "remove_identity" -> "RemoveIdentity"
      [] op = "remove_all_identities" -> "RemoveAllIdentities"
      [] op = "add_smartcard_key" -> "AddSmartcardKey"
      [] op = "add_smartcard_key_constrained" -> "AddSmartcardKeyConstrained"
      [] op = "remove_smartcard_key" -> "RemoveSmartcardKey"
      [] op = "lock" -> "Lock"
      [] op = "unlock" -> "Unlock"
      [] op = "extension" -> "Extension"

\* the operation's match on the Response of handle
Finish(op, r) ==
    CASE op = "request_identities" -> request_identities(r)
      [] op = "sign" -> sign(r)
      [] op = "add_identity" -> add_identity(r)
      [] op = "add_identity_constrained" -> add_identity_constrained(r)
      [] op = "remove_identity" -> remove_identity(r)
      [] op = "remove_all_identities" -> remove_all_identities(r)
      [] op = "add_smartcard_key" -> add_smartcard_key(r)
      [] op = "add_smartcard_key_constrained" -> add_smartcard_key_constrained(r)
      [] op = "remove_smartcard_key" -> remove_smartcard_key(r)
      [] op = "lock" -> lock(r)
      [] op = "unlock" -> unlock(r)
      [] op = "extension" -> extension(r)

(* ------------------------------ state --------------------------------- *)
VARIABLES
    platform,    \* the build target: cfg(unix) or cfg(windows)
    stream,      \* the service_binding::Stream variant given to connect
    cpc,         \* connect: "call", "open", "sleep", "done"
    events,      \* what connect did so far: open attempts and sleeps
    held,        \* number of OS connection resources currently open
    connResult,  \* what connect returned
    client,      \* TRUE once a Client (its Framed adapter) exists
    borrow,      \* the caller holding the Session's &mut self (or NoCaller)
    pc,          \* per caller: "idle", or "recv" inside handle's try_next
    cur,         \* per caller: the call it is in
    calls,       \* number of calls started so far
    chan,        \* the Channel: "open", "closed" by the peer, or "dead"
    toPeer,      \* ids of the Requests written and not read by the peer
    fromPeer,    \* frames the peer sent and the Client has not read yet
    sent,        \* ids of all Requests written, in order
    last,        \* the call that returned most recently
    cancelled,   \* number of calls dropped in flight
    injected,    \* number of frames the peer sent without a Request
    prevUnexpected, \* the call returned before the present one failed
                 \* with UnexpectedResponse
    gone         \* some call has met the end of the stream

connVars == <<platform, stream, cpc, events, held, connResult, client>>
sessVars == <<borrow, pc, cur, calls, chan, toPeer, fromPeer, sent, last,
              cancelled, injected, prevUnexpected, gone>>
vars == <<connVars, sessVars>>

Event(ev, ok, os, ms) == [ev |-> ev, ok |-> ok, os |-> os, ms |-> ms]
OpenEvent(ok, os) == Event("open", ok, os, 0)
FromStdEvent(ok, os) == Event("from_std", ok, os, 0)
SleepEvent(ms) == Event("sleep", FALSE, <<>>, ms)

Opens == SelectSeq(events, LAMBDA e : e.ev = "open")
Sleeps == SelectSeq(events, LAMBDA e : e.ev = "sleep")
Attempts == Len(Opens)
BusyCount == Len(SelectSeq(events, LAMBDA e :
                 e.ev = "open" /\ ~e.ok /\ e.os = <<ERROR_PIPE_BUSY>>))

\* a std stream handed to connect is an open handle already; a named pipe
\* is only a path
HeldByDescriptor(k) == IF k \in {"Unix", "Tcp"} THEN 1 ELSE 0

ConnStart ==
    /\ platform \in Platforms
    /\ stream \in StreamKinds(platform)
    /\ cpc = "call"
    /\ events = <<>>
    /\ held = HeldByDescriptor(stream)
    /\ connResult = NoResult
    /\ client = FALSE

(* ------------------------------ connect ------------------------------- *)
\* Client::new: wraps the stream, no I/O
ClientNew ==
    /\ client' = TRUE
    /\ connResult' = Ok("Session", <<>>)

ConnectFails(e) ==
    /\ client' = FALSE
    /\ connResult' = Err(e)

\* faulty variant: the handle outlives a failed conversion
HeldAfterFromStd_Leak(h, ok) == h

\* the handle count after from_std: on Err the std stream, moved into
\* from_std, is dropped
HeldAfterFromStd(h, ok) == IF ok THEN h ELSE h - 1

\* faulty variant: a failed conversion is tried again
AfterFromStdError_Retry == "call"

\* where connect goes when from_std fails: ? returns the error
AfterFromStdError == "done"

\* UnixStream::from_std(stream)? / TcpStream::from_std(stream)?
FromStd ==
    \/ /\ events' = Append(events, FromStdEvent(TRUE, <<>>))
       /\ held' = HeldAfterFromStd(held, TRUE)
       /\ ClientNew
       /\ cpc' = "done"
       /\ UNCHANGED <<platform, stream>>
       /\ UNCHANGED sessVars
    \/ \E code \in OtherOsErrors :
         /\ events' = Append(events, FromStdEvent(FALSE, code))
         /\ held' = HeldAfterFromStd(held, FALSE)
         /\ ConnectFails(OsError(code))
         /\ cpc' = AfterFromStdError
         /\ UNCHANGED <<platform, stream>>
         /\ UNCHANGED sessVars

ConnectUnix ==
    /\ cpc = "call"
    /\ platform = "unix"
    /\ stream = "Unix"
    /\ FromStd

ConnectTcp ==
    /\ cpc = "call"
    /\ stream = "Tcp"
    /\ FromStd

\* faulty variant: the NamedPipe arm is not gated on the target
NamedPipeSupported_Always(p) == TRUE

\* cfg(windows) / cfg(not(windows)) on the NamedPipe arm
NamedPipeSupported(p) == p = "windows"

\* faulty variant: every failed open is retried
IsPipeBusy_AnyError(os) == TRUE

\* e.raw_os_error() == Some(ERROR_PIPE_BUSY as i32)
IsPipeBusy(os) == os = <<ERROR_PIPE_BUSY>>

\* faulty variant: the loop retries without sleeping
AfterBusy_NoSleep == "open"

\* where the loop goes after a busy attempt: falls out of the match into
\* the sleep
AfterBusy == "sleep"

\* handles held after an open attempt: only Ok(client) carries one
HeldAfterOpen(h, ok) == IF ok THEN h + 1 ELSE h

\* one iteration of the loop up to its await: ClientOptions::new().open(&pipe)
OpenPipe ==
    /\ stream = "NamedPipe"
    /\ NamedPipeSupported(platform)
    /\ cpc \in {"call", "open"}
    /\ \/ /\ events' = Append(events, OpenEvent(TRUE, <<>>))
          /\ held' = HeldAfterOpen(held, TRUE)
          /\ ClientNew
          /\ cpc' = "done"
       \/ \E os \in OpenErrors :
            /\ IsPipeBusy(os) => Attempts < MaxBusy
            /\ events' = Append(events, OpenEvent(FALSE, os))
            /\ held' = HeldAfterOpen(held, FALSE)
            /\ IF IsPipeBusy(os)
                 THEN /\ cpc' = AfterBusy
                      /\ UNCHANGED <<connResult, client>>
                 ELSE /\ cpc' = "done"
                      /\ ConnectFails(OsError(os))
    /\ UNCHANGED <<platform, stream>>
    /\ UNCHANGED sessVars

\* tokio::time::sleep(Duration::from_millis(50)).await
Sleep ==
    /\ cpc = "sleep"
    /\ events' = Append(events, SleepEvent(SleepMillis))
    /\ cpc' = "open"
    /\ UNCHANGED <<platform, stream, held, connResult, client>>
    /\ UNCHANGED sessVars

\* NamedPipe on a target that is not windows
ConnectUnsupported ==
    /\ cpc = "call"
    /\ stream = "NamedPipe"
    /\ ~NamedPipeSupported(platform)
    /\ ConnectFails(IoOther("Named pipes supported on Windows only"))
    /\ cpc' = "done"
    /\ UNCHANGED <<platform, stream, events, held>>
    /\ UNCHANGED sessVars

(* --------------------------- the Session ------------------------------ *)

NoCall == [no |-> 0, op |-> "none", req |-> "none"]
\* a frame on the wire: the Request it answers (0: none) and whether its
\* bytes decode; the Response it decodes to is drawn when it is decoded
Frame(replyTo, good) == [replyTo |-> replyTo, good |-> good]
NoFrame == Frame(0, FALSE)
NoResp == Resp("none", <<>>)

\* how a call returned: "send" (send failed), "frame" (a Response was
\* decoded), "decode", "eof", "io" (try_next failed), or "none" yet;
\* raised is the error handle returned to the operation (NoError: none)
Returned(call, how, frame, resp, raised, result) ==
    [no |-> call.no, op |-> call.op, how |-> how,
     frame |-> frame, resp |-> resp, raised |-> raised, result |-> result]
NoReturn == Returned(NoCall, "none", NoFrame, NoResp, NoError, NoResult)

SessInit ==
    /\ borrow = NoCaller
    /\ pc = [c \in Callers |-> "idle"]
    /\ cur = [c \in Callers |-> NoCall]
    /\ calls = 0
    /\ chan = "open"
    /\ toPeer = <<>>
    /\ fromPeer = <<>>
    /\ sent = <<>>
    /\ last = NoReturn
    /\ cancelled = 0
    /\ injected = 0
    /\ prevUnexpected = FALSE
    /\ gone = FALSE

\* faulty variant: calls take a shared borrow
BorrowFree_Shared == TRUE

\* every operation and handle take &mut self: a call needs the exclusive
\* borrow of the Session
BorrowFree == borrow = NoCaller

\* faulty variant: the borrow outlives the call
BorrowAfter_Held(b, c) == b

\* the &mut self borrow ends with the call's future: returned or dropped
BorrowAfter(b, c) == IF b = c THEN NoCaller ELSE b

\* faulty variant: any error of handle reported as a wrong-shaped Response
Propagate_AsUnexpected(e) == Err(UnexpectedResponse)

\* self.handle(..).await? in an operation: the error is returned as it is
Propagate(e) == Err(e)

\* handle's Ok(response)
HandleOk(r) == Ok("Response", <<r>>)

\* an operation applied to what handle returned
Operation(op, h) == IF h.ok THEN Finish(op, h.val[1]) ELSE Propagate(h.err)

\* the call returns to its caller with the operation's result
Return(c, call, how, frame, h) ==
    /\ last' = Returned(call, how, frame,
                        IF h.ok THEN h.val[1] ELSE NoResp,
                        h.err, Operation(call.op, h))
    /\ pc' = [pc EXCEPT ![c] = "idle"]
    /\ cur' = [cur EXCEPT ![c] = NoCall]
    /\ borrow' = BorrowAfter(borrow, c)

\* faulty variant: end of stream reported as a wrong-shaped Response
ServerDisconnected_Unexpected == Err(UnexpectedResponse)

\* faulty variant: the frame is decoded but left in the read buffer
Consume_Peek(q) == q

\* try_next takes the decoded frame off the stream
Consume(q) == Tail(q)

\* faulty variant: a Response of the wrong shape is put back
AfterDecode_KeepsMismatch(q, res) == IF res.ok THEN Consume(q) ELSE q

\* the read buffer after try_next yielded a frame: the frame is gone
\* whatever the operation makes of it
AfterDecode(q, res) == Consume(q)

\* faulty variant: try_next yields the newest frame
NextFrame_Newest(q) == q[Len(q)]

\* try_next yields the oldest frame not yet read
NextFrame(q) == Head(q)

\* handle, the None arm of try_next
ServerDisconnected == Err(IoOther("server disconnected"))

\* faulty variant: the Session reconnects on end of stream
ChanAfterEof_Reconnect(ch) == "open"

\* the None arm leaves the adapter as it is
ChanAfterEof(ch) == ch

\* faulty variant: the Request is written again
Written_Twice(q, no) == Append(Append(q, no), no)

\* adapter.send writes the Request once
Written(q, no) == Append(q, no)

\* faulty variant: the outcome of send is ignored
SendErrorReturns_Ignored == FALSE

\* self.adapter.send(message).await?: an error of send returns from handle
SendErrorReturns == TRUE

\* the last returned call failed with UnexpectedResponse
FailedUnexpected(l) == l.how = "frame" /\ ~l.result.ok

\* an operation is called and handle runs self.adapter.send(message).await?
Send(c, op) ==
    /\ client
    /\ BorrowFree
    /\ pc[c] = "idle"
    /\ calls < MaxCalls
    /\ calls' = calls + 1
    /\ prevUnexpected' = FailedUnexpected(last)
    /\ LET call == [no |-> calls + 1, op |-> op, req |-> RequestOf(op)]
           Reading == /\ borrow' = c
                      /\ pc' = [pc EXCEPT ![c] = "recv"]
                      /\ cur' = [cur EXCEPT ![c] = call]
                      /\ last' = NoReturn
       IN
       \/ \* the Request is written
          /\ Reading
          /\ sent' = Written(sent, call.no)
          /\ toPeer' = Written(toPeer, call.no)
          /\ UNCHANGED chan
       \/ \* send fails: ? returns the error
          \E e \in IoErrors :
            /\ IF SendErrorReturns THEN Return(c, call, "send", NoFrame, Err(e))
                                   ELSE Reading
            /\ chan' = IF chan = "open" THEN "dead" ELSE chan
            /\ UNCHANGED <<sent, toPeer>>
    /\ UNCHANGED <<fromPeer, cancelled, injected, gone>>
    /\ UNCHANGED connVars

\* try_next yields Some(response), or meets bytes the codec rejects
RecvFrame(c) ==
    /\ pc[c] = "recv"
    /\ chan # "dead"
    /\ fromPeer # <<>>
    /\ LET f == NextFrame(fromPeer) IN
         IF f.good
         THEN \E r \in Responses :
                /\ Return(c, cur[c], "frame", f, HandleOk(r))
                /\ fromPeer' = AfterDecode(fromPeer, Finish(cur[c].op, r))
         ELSE /\ Return(c, cur[c], "decode", f, Err(DecodeError))
              /\ fromPeer' = Consume(fromPeer)
    /\ UNCHANGED <<chan, gone>>
    /\ UNCHANGED <<calls, toPeer, sent, cancelled, injected, prevUnexpected>>
    /\ UNCHANGED connVars

\* try_next yields None: end of stream
RecvEof(c) ==
    /\ pc[c] = "recv"
    /\ chan = "closed"
    /\ fromPeer = <<>>
    /\ Return(c, cur[c], "eof", NoFrame, ServerDisconnected)
    /\ chan' = ChanAfterEof(chan)
    /\ gone' = TRUE
    /\ UNCHANGED fromPeer
    /\ UNCHANGED <<calls, toPeer, sent, cancelled, injected, prevUnexpected>>
    /\ UNCHANGED connVars

\* try_next fails reading the stream
RecvIoError(c) ==
    /\ pc[c] = "recv"
    /\ chan # "closed"
    /\ \E e \in IoErrors : Return(c, cur[c], "io", NoFrame, Err(e))
    /\ chan' = "dead"
    /\ UNCHANGED <<fromPeer, gone>>
    /\ UNCHANGED <<calls, toPeer, sent, cancelled, injected, prevUnexpected>>
    /\ UNCHANGED connVars

\* self.adapter.try_next().await? and the operation's match on the outcome
Recv(c) ==
    \/ RecvFrame(c)
    \/ RecvEof(c)
    \/ RecvIoError(c)

\* the caller drops the future of a call suspended in try_next
Cancel(c) ==
    /\ pc[c] = "recv"
    /\ pc' = [pc EXCEPT ![c] = "idle"]
    /\ cur' = [cur EXCEPT ![c] = NoCall]
    /\ borrow' = BorrowAfter(borrow, c)
    /\ cancelled' = cancelled + 1
    /\ UNCHANGED <<calls, chan, toPeer, fromPeer, sent, last, injected,
                   prevUnexpected, gone>>
    /\ UNCHANGED connVars

(* ------------------------------ the peer ------------------------------ *)
\* the agent reads the oldest Request and answers it
PeerReply ==
    /\ chan = "open"
    /\ toPeer # <<>>
    /\ \E good \in BOOLEAN :
         fromPeer' = Append(fromPeer, Frame(Head(toPeer), good))
    /\ toPeer' = Tail(toPeer)
    /\ UNCHANGED <<borrow, pc, cur, calls, chan, sent, last, cancelled, injected,
                   prevUnexpected, gone>>
    /\ UNCHANGED connVars

\* the agent sends a Response nobody asked for
PeerInject ==
    /\ client
    /\ chan = "open"
    /\ injected < MaxInject
    /\ fromPeer' = Append(fromPeer, Frame(0, TRUE))
    /\ injected' = injected + 1
    /\ UNCHANGED <<borrow, pc, cur, calls, chan, toPeer, sent, last, cancelled,
                   prevUnexpected, gone>>
    /\ UNCHANGED connVars

\* the agent closes the Channel
PeerClose ==
    /\ client
    /\ chan = "open"
    /\ chan' = "closed"
    /\ UNCHANGED <<borrow, pc, cur, calls, toPeer, fromPeer, sent, last,
                   cancelled, injected, prevUnexpected, gone>>
    /\ UNCHANGED connVars

(* --------------------------- specifications --------------------------- *)
\* connect is called; no Client exists yet
ConnInit ==
    /\ ConnStart
    /\ SessInit

\* connect alone, on every platform and stream kind
ConnNext ==
    \/ ConnectUnix
    \/ ConnectTcp
    \/ OpenPipe
    \/ Sleep
    \/ ConnectUnsupported

ConnSpec == ConnInit /\ [][ConnNext]_vars

\* connect, once polled, runs on: open returns and the sleep elapses
ConnFairSpec == ConnSpec /\ WF_vars(ConnNext)

\* a Client made by Client::new over an open socket, its callers and peer
Init ==
    /\ platform = "unix"
    /\ stream = "Tcp"
    /\ cpc = "done"
    /\ events = <<>>
    /\ held = 1
    /\ connResult = Ok("Session", <<>>)
    /\ client = TRUE
    /\ SessInit

Next ==
    \/ \E c \in Callers, op \in Operations : Send(c, op)
    \/ \E c \in Callers : Recv(c)
    \/ \E c \in Callers : Cancel(c)
    \/ PeerReply
    \/ PeerInject
    \/ PeerClose

Spec == Init /\ [][Next]_vars

\* a call suspended in try_next runs on once the stream has a frame or has
\* ended; an I/O error is the environment's doing and is not promised
RecvReady == \E c \in Callers : RecvFrame(c) \/ RecvEof(c)

\* the calls against a peer that sends nothing but replies
CallNext ==
    \/ \E c \in Callers, op \in Operations : Send(c, op)
    \/ \E c \in Callers : Recv(c)
    \/ \E c \in Callers : Cancel(c)
    \/ PeerReply
    \/ PeerClose

FairSpec == Init /\ [][CallNext]_vars /\ WF_vars(RecvReady)

(* ------------------------------ claims -------------------------------- *)
\* the success shapes and return type of each operation, as specified
ExpectedTags(op) ==
    CASE op = "request_identities" -> {"IdentitiesAnswer"}
      [] op = "sign" -> {"SignResponse"}
      [] op = "extension" -> {"Success", "ExtensionResponse"}
      [] OTHER -> {"Success"}

ResultType(op) ==
    CASE op = "request_identities" -> "Vec<Identity>"
      [] op = "sign" -> "Signature"
      [] op = "extension" -> "Option<Extension>"
      [] OTHER -> "()"

InFlight == {c \in Callers : pc[c] = "recv"}

C2_Pairing ==
    (cancelled = 0 /\ injected = 0) =>
        /\ \A i \in 1..Len(sent) : i <= sent[i] /\ sent[i] <= calls
        /\ \A i \in 1..(Len(sent) - 1) : sent[i] < sent[i + 1]
        /\ Len(sent) = calls => \A i \in 1..calls : sent[i] = i
        /\ \A c \in InFlight :
              /\ sent[Len(sent)] = cur[c].no
              /\ (fromPeer # <<>> /\ chan # "dead") =>
                    Head(fromPeer).replyTo = cur[c].no
        /\ last.how \in {"frame", "decode"} => last.frame.replyTo = last.no

\* the second call was resolved by the reply to the second Request
C2_Witness ==
    /\ cancelled = 0
    /\ injected = 0
    /\ last.how = "frame"
    /\ last.no = 2
    /\ last.frame.replyTo = 2
    /\ sent = <<1, 2>>

\* C3: for every operation, a reply of the operation's expected success shape
\* makes the call return its typed success value (carrying what the reply
\* carried) and no error.
C3_ExpectedReplySucceeds ==
    (last.how = "frame" /\ last.resp.tag \in ExpectedTags(last.op)) =>
        /\ last.result.ok
        /\ last.result.type = ResultType(last.op)
        /\ last.result.val = last.resp.body
        /\ last.result.err = NoError

\* sign answered by a SignResponse returned the signature
C3_Witness ==
    /\ last.op = "sign"
    /\ last.how = "frame"
    /\ last.resp = Resp("SignResponse", <<"sig2">>)
    /\ last.result = Ok("Signature", <<"sig2">>)

\* C4: for every operation but extension, a decoded reply of any variant other
\* than the expected one makes the call fail with UnexpectedResponse and
\* return no value.
C4_OtherReplyIsUnexpected ==
    (/\ last.how = "frame"
     /\ last.op # "extension"
     /\ last.resp.tag \notin ExpectedTags(last.op)) =>
        /\ ~last.result.ok
        /\ last.result.val = <<>>
        /\ last.result.err = UnexpectedResponse

\* sign answered by a bare Success failed with UnexpectedResponse
C4_Witness ==
    /\ last.op = "sign"
    /\ last.how = "frame"
    /\ last.resp.tag = "Success"
    /\ last.result = Err(UnexpectedResponse)

\* C5: extension returns None on a bare Success, Some(payload) with the
\* peer's payload on an ExtensionResponse, and UnexpectedResponse on every
\* other reply.
C5_Extension ==
    (last.how = "frame" /\ last.op = "extension") =>
        CASE last.resp.tag = "Success" ->
                last.result = Ok("Option<Extension>", <<>>)
          [] last.resp.tag = "ExtensionResponse" ->
                /\ last.result = Ok("Option<Extension>", last.resp.body)
                /\ Len(last.result.val) = 1
          [] OTHER -> last.result = Err(UnexpectedResponse)

\* extension answered by an ExtensionResponse returned its payload
C5_Witness ==
    /\ last.op = "extension"
    /\ last.how = "frame"
    /\ last.resp = Resp("ExtensionResponse", <<"ext2">>)
    /\ last.result.val = <<"ext2">>

\* the class of an error is its enum variant
ErrorClass(e) == e.variant

IsBusy(e) == e.ev = "open" /\ ~e.ok /\ e.os = <<ERROR_PIPE_BUSY>>
OnWindowsPipe == stream = "NamedPipe" /\ platform = "windows"

\* C7: on a named pipe, every open attempt but the last was answered "busy";
\* connect returns on the first attempt answered otherwise, after exactly N + 1
\* attempts for N busy answers: with a Client owning the pipe when that
\* attempt succeeded, with that attempt's error when it failed.
C7_BusyRetries ==
    OnWindowsPipe =>
        /\ \A i \in 1..(Attempts - 1) : IsBusy(Opens[i])
        /\ cpc # "done" => \A i \in 1..Attempts : IsBusy(Opens[i])
        /\ cpc = "done" =>
              /\ Attempts = BusyCount + 1
              /\ ~IsBusy(Opens[Attempts])
              /\ IF Opens[Attempts].ok
                   THEN connResult = Ok("Session", <<>>) /\ client /\ held = 1
                   ELSE connResult = Err(OsError(Opens[Attempts].os)) /\ ~client

\* two busy answers, then the third attempt is accepted
C7_Witness ==
    /\ OnWindowsPipe
    /\ cpc = "done"
    /\ BusyCount = 2
    /\ Attempts = 3
    /\ connResult.ok
    /\ client

\* attempts and sleeps alternate, starting and ending with an attempt
C8_Alternation ==
    /\ \A i \in 1..Len(events) :
          IF i % 2 = 1 THEN events[i].ev = "open"
                       ELSE events[i] = SleepEvent(SleepMillis)
    /\ cpc = "done" /\ events # <<>> => events[Len(events)].ev = "open"
    /\ cpc = "open" => events # <<>> /\ events[Len(events)].ev = "sleep"
    /\ cpc = "sleep" => IsBusy(events[Len(events)])
    /\ Len(Sleeps) <= BusyCount

\* C8: while every attempt so far was answered "busy", connect has not
\* returned, however many there were; one sleep of the fixed delay separates
\* every two consecutive attempts and there is none before the first or after
\* the last; connect has returned only after an attempt answered with success
\* or another error, and once the server stops answering "busy" it returns.
C8_UnboundedRetry ==
    /\ [](OnWindowsPipe =>
            /\ C8_Alternation
            /\ (\A i \in 1..Attempts : IsBusy(Opens[i])) => cpc # "done"
            /\ cpc = "done" => Attempts >= 1 /\ ~IsBusy(Opens[Attempts])
                                /\ Len(Sleeps) = Attempts - 1)
    /\ <>(cpc = "done")

\* connect returned after three busy answers and three sleeps
C8_Witness ==
    /\ OnWindowsPipe
    /\ cpc = "done"
    /\ BusyCount = 3
    /\ Len(Sleeps) = 3
    /\ Attempts = 4

\* C9: a NamedPipe stream on a target without named pipes makes connect fail
\* at once with the error "Named pipes supported on Windows only": no open
\* attempt, no sleep, no Client.
C9_UnsupportedFailsFast ==
    (stream = "NamedPipe" /\ platform # "windows") =>
        /\ events = <<>>
        /\ ~client
        /\ cpc \in {"call", "done"}
        /\ cpc = "done" =>
              connResult = Err(IoOther("Named pipes supported on Windows only"))

\* connect returned the error on unix
C9_Witness ==
    /\ stream = "NamedPipe"
    /\ platform = "unix"
    /\ cpc = "done"
    /\ ~connResult.ok

\* C10: when connect has returned Ok the Client exists and exactly one
\* connection resource is open; when it has returned Err none is open and no
\* Client exists; during the retry loop no resource is held.
C10_Resources ==
    /\ cpc = "done" =>
          IF connResult.ok THEN client /\ held = 1
                           ELSE ~client /\ held = 0
    /\ cpc \in {"open", "sleep"} => held = 0
    /\ held \in {0, 1}

\* a Tcp stream whose conversion failed is closed
C10_Witness ==
    /\ stream = "Tcp"
    /\ cpc = "done"
    /\ ~connResult.ok
    /\ held = 0

\* why a call failed: the step of handle that failed, or "unexpected" for a
\* decoded Response the operation rejected ("ok": it did not fail)
CauseOf(l) ==
    IF l.how = "frame" THEN (IF l.result.ok THEN "ok" ELSE "unexpected")
                       ELSE l.how
Causes == {"send", "io", "eof", "decode", "unexpected"}

\* the errors each cause can yield
ErrorsOf(cause) ==
    CASE cause \in {"send", "io"} -> IoErrors
      [] cause = "eof" -> {ServerDisconnected.err}
      [] cause = "decode" -> {DecodeError}
      [] cause = "unexpected" -> {UnexpectedResponse}
      [] OTHER -> {}

\* the error class the specification gives each cause
SpecClass(cause) ==
    CASE cause \in {"send", "io"} -> "IOError"
      [] cause = "eof" -> "DisconnectedError"
      [] cause = "decode" -> "ProtocolError"
      [] cause = "unexpected" -> "UnexpectedResponseError"
      [] OTHER -> "none"

\* the variant of the returned error for each cause
VariantOf(cause) ==
    CASE cause \in {"send", "io", "eof"} -> "IO"
      [] cause = "decode" -> "Decode"
      [] cause = "unexpected" -> "UnexpectedResponse"
      [] OTHER -> "none"

C12_IdentitiesAsSent ==
    (/\ last.op = "request_identities"
     /\ last.how = "frame"
     /\ last.resp.tag = "IdentitiesAnswer") =>
        /\ last.result.ok
        /\ Len(last.result.val) = Len(last.resp.body)
        /\ \A i \in 1..Len(last.resp.body) :
              last.result.val[i] = last.resp.body[i]
        /\ last.result = Ok("Vec<Identity>", last.resp.body)

\* the peer listed idB before idA and the call returned them in that order
C12_Witness ==
    /\ last.op = "request_identities"
    /\ last.how = "frame"
    /\ last.resp = Resp("IdentitiesAnswer", <<"idB", "idA">>)
    /\ last.result.val = <<"idB", "idA">>

OnSocket == stream \in {"Unix", "Tcp"}

\* C13: for a local socket or a TCP socket connect converts the stream once:
\* it never retries and never sleeps, and a failure is returned at once as
\* the error of connect, with no Session.
C13_SingleAttempt ==
    OnSocket =>
        /\ Len(events) <= 1
        /\ \A i \in 1..Len(events) : events[i].ev = "from_std"
        /\ Sleeps = <<>>
        /\ Opens = <<>>
        /\ cpc \in {"call", "done"}
        /\ cpc = "call" => (events = <<>> /\ connResult = NoResult /\ ~client)
        /\ cpc = "done" =>
              /\ Len(events) = 1
              /\ events[1].ok => (connResult = Ok("Session", <<>>) /\ client)
              /\ ~events[1].ok =>
                    /\ connResult = Err(OsError(events[1].os))
                    /\ ~client
                    /\ held = 0

\* the conversion of a TCP stream failed and connect returned that error
C13_Witness ==
    /\ stream = "Tcp"
    /\ cpc = "done"
    /\ events = <<FromStdEvent(FALSE, <<2>>)>>
    /\ connResult = Err(OsError(<<2>>))
    /\ ~client

\* one step of caller c through the call cycle
C14_Step(c) ==
    /\ (pc[c] = "idle" /\ pc'[c] = "recv") =>
          /\ borrow' = c
          /\ cur'[c].no = calls + 1
          /\ sent' = Append(sent, cur'[c].no)
    /\ (pc[c] = "recv" /\ pc'[c] = "idle") =>
          /\ borrow' = NoCaller
          /\ \/ cancelled' = cancelled + 1 /\ last' = last
             \/ /\ cancelled' = cancelled
                /\ last'.no = cur[c].no
                /\ last'.how \in {"frame", "decode", "eof", "io"}
                /\ last'.how \in {"frame", "decode"} =>
                      (fromPeer # <<>> /\ fromPeer' = Tail(fromPeer))
                /\ last'.how = "eof" => (chan = "closed" /\ fromPeer = <<>>)
                /\ last'.how = "io" => chan' = "dead"
    /\ (/\ pc[c] = "recv"
        /\ chan = "open" /\ fromPeer = <<>>
        /\ chan' = "open" /\ cancelled' = cancelled) => pc'[c] = "recv"

\* the Session is idle whenever no call is in flight
C14_Idle ==
    /\ \A c \in Callers : pc[c] \in {"idle", "recv"}
    /\ InFlight = {} => borrow = NoCaller
    /\ (last.how # "none" /\ cancelled = 0) => (InFlight = {} /\ borrow = NoCaller)

\* a call is waiting although a frame is there or the stream has ended
C14_ReadyAndWaiting ==
    /\ InFlight # {}
    /\ chan # "dead"
    /\ fromPeer # <<>> \/ chan = "closed"

\* C14: a call goes from idle to awaiting its Response by writing its Request
\* and back to idle by returning (or being dropped), and the Session is idle
\* after every outcome; a waiting call leaves only on a frame, the end of the
\* stream, an I/O error or its caller dropping it, so with the Channel open
\* and no frame it keeps waiting; it never waits forever once a frame is there
\* or the stream has ended.
C14_CallLifecycle ==
    /\ [][\A c \in Callers : C14_Step(c)]_vars
    /\ []C14_Idle
    /\ []<>~C14_ReadyAndWaiting

\* after a first call returned, the second call waits on an open Channel
\* whose peer has sent nothing for it
C14_Witness ==
    /\ pc["t1"] = "recv"
    /\ cur["t1"].no = 2
    /\ sent = <<1, 2>>
    /\ chan = "open"
    /\ toPeer = <<2>>
    /\ fromPeer = <<>>
    /\ cancelled = 0

\* C15: when send fails the call returns that I/O error and try_next is not
\* run: the call is never found waiting for a Response, no frame leaves the
\* read buffer in that call, and nothing was decoded for it.
C15_SendFailureSkipsRead ==
    /\ [](/\ \A c \in InFlight : (sent # <<>> /\ sent[Len(sent)] = cur[c].no)
          /\ last.how = "send" =>
                /\ ~last.result.ok
                /\ last.result.err \in IoErrors
                /\ last.result.err = last.raised
                /\ last.frame = NoFrame
                /\ last.resp = NoResp
                /\ \A i \in 1..Len(sent) : sent[i] # last.no)
    /\ [][(calls' = calls + 1 /\ sent' = sent) =>
              /\ last'.how = "send"
              /\ last'.no = calls'
              /\ fromPeer' = fromPeer
              /\ pc' = pc
              /\ borrow' = NoCaller]_vars

\* the second call's send failed while a frame lay unread in the buffer
C15_Witness ==
    /\ last.how = "send"
    /\ last.no = 2
    /\ Len(fromPeer) = 1
    /\ sent = <<1>>

\* frames the Session has taken off the stream so far: those the peer sent
\* (one per Request it read, and the unsolicited ones) less those unread
Consumed == (Len(sent) - Len(toPeer)) + injected - Len(fromPeer)

\* C16: no retry and no resynchronisation: a call writes its Request at most
\* once (exactly once when send succeeds) and takes at most one frame off the
\* stream, so at most as many Requests are written as calls were started and
\* at most as many frames consumed as calls have returned.
C16_OneRequestOneResponse ==
    /\ [](/\ Len(sent) <= calls
          /\ \A i \in 1..Len(sent) : sent[i] \in 1..calls
          /\ \A i \in 1..(Len(sent) - 1) : sent[i] < sent[i + 1]
          /\ Consumed >= 0
          /\ Consumed <= calls - Cardinality(InFlight) - cancelled)
    /\ [][/\ calls' = calls + 1 => Len(sent') \in {Len(sent), Len(sent) + 1}
          /\ calls' = calls => sent' = sent
          /\ \A c \in Callers : (pc[c] = "idle" /\ pc'[c] = "recv") =>
                sent' = Append(sent, cur'[c].no)
          /\ Consumed' \in {Consumed, Consumed + 1}
          /\ Consumed' = Consumed + 1 =>
                /\ last'.how \in {"frame", "decode"}
                /\ \E c \in InFlight : last'.no = cur[c].no /\ pc'[c] = "idle"]_vars

\* three calls have returned, each on a frame: three Requests were written
\* and three frames consumed
C16_Witness ==
    /\ calls = 3
    /\ InFlight = {}
    /\ cancelled = 0
    /\ Len(sent) = 3
    /\ Consumed = 3
    /\ last.how = "frame"

\* C17: a call that failed with UnexpectedResponse has taken the wrong-shaped
\* frame off the stream and freed the Session; the next call writes its own
\* Request, is not handed that frame again (with no call cancelled and no
\* unsolicited frame it is resolved by the reply to its own Request), and an
\* answer of the expected shape makes it succeed with that answer.
C17_UnexpectedKeepsSync ==
    /\ FailedUnexpected(last) =>
          /\ InFlight = {}
          /\ borrow = NoCaller
          /\ last.result = Err(UnexpectedResponse)
          /\ last.frame.replyTo # 0 =>
                \A i \in 1..Len(fromPeer) :
                    fromPeer[i].replyTo # last.frame.replyTo
    /\ prevUnexpected =>
          /\ \A c \in InFlight : (sent # <<>> /\ sent[Len(sent)] = cur[c].no)
          /\ (cancelled = 0 /\ injected = 0 /\ last.how \in {"frame", "decode"}) =>
                last.frame.replyTo = last.no
          /\ (/\ last.how = "frame"
              /\ last.frame.replyTo = last.no
              /\ last.resp.tag \in ExpectedTags(last.op)) =>
                /\ last.result.ok
                /\ last.result.val = last.resp.body

\* the first call failed on a wrong-shaped reply; the second got its own
\* reply and succeeded
C17_Witness ==
    /\ prevUnexpected
    /\ cancelled = 0
    /\ injected = 0
    /\ last.no = 2
    /\ last.how = "frame"
    /\ last.frame.replyTo = 2
    /\ last.result.ok

\* C18: once a call has failed on the end of the stream, the stream stays
\* ended and empty, and every call that returns fails: at send with an I/O
\* error or at try_next with the disconnect error; none succeeds.
C18_DisconnectIsFinal ==
    gone =>
        /\ chan = "closed"
        /\ fromPeer = <<>>
        /\ last.how # "none" =>
              /\ ~last.result.ok
              /\ last.how \in {"send", "eof"}
              /\ last.how = "send" => last.result.err \in IoErrors
              /\ last.how = "eof" => last.result = ServerDisconnected
              /\ ErrorClass(last.result.err) = "IO"

\* three calls wrote their Requests, none was dropped, no frame was ever
\* read: each of them met the end of the stream
C18_Witness ==
    /\ gone
    /\ sent = <<1, 2, 3>>
    /\ cancelled = 0
    /\ Consumed = 0
    /\ last.no = 3
    /\ last.how = "eof"
    /\ ~last.result.ok

\* C19: for every operation, an error handle returns (of send, of try_next,
\* or the disconnect error) is the error the call returns, unchanged and
\* never as UnexpectedResponse; UnexpectedResponse is returned only by a call
\* that decoded a complete Response of a shape it does not expect.
C19_UniformErrors ==
    last.how # "none" =>
        /\ last.raised # NoError => last.result = Err(last.raised)
        /\ last.how \in {"send", "io"} => last.raised \in IoErrors
        /\ last.how = "eof" => last.raised = IoOther("server disconnected")
        /\ last.how = "decode" => last.raised = DecodeError
        /\ last.how = "frame" => last.raised = NoError
        /\ last.how \in {"send", "io", "eof", "decode"} =>
              last.result.err # UnexpectedResponse
        /\ last.result.err = UnexpectedResponse =>
              /\ last.how = "frame"
              /\ last.frame.good
              /\ last.resp \in Responses
              /\ last.resp.tag \notin ExpectedTags(last.op)

\* extension failed reading the stream and returned the broken-pipe error
C19_Witness ==
    /\ last.op = "extension"
    /\ last.how = "io"
    /\ last.raised.kind = "BrokenPipe"
    /\ last.result = Err(last.raised)

\* unsolicited frames the Session has taken off the stream
ConsumedSurplus ==
    injected - Len(SelectSeq(fromPeer, LAMBDA f : f.replyTo = 0))

\* C20: frames are handed out in arrival order whatever call asks: the frame
\* that resolves a call is an unsolicited one or the reply to the Request
\* written as many places before the call's own as calls were dropped in
\* flight and unsolicited frames consumed; the call gets the reply to its own
\* Request exactly when there were none.
C20_OffByCancelled ==
    last.how \in {"frame", "decode"} =>
        LET back == cancelled + ConsumedSurplus IN
        /\ last.no = sent[Len(sent)]
        /\ last.frame.replyTo = 0 => injected > 0
        /\ last.frame.replyTo # 0 =>
              /\ Len(sent) - back >= 1
              /\ last.frame.replyTo = sent[Len(sent) - back]
              /\ (back = 0) <=> (last.frame.replyTo = last.no)

\* the first call was dropped in flight: the second got the reply to the
\* first Request and the third the reply to the second
C20_Witness ==
    /\ cancelled = 1
    /\ injected = 0
    /\ sent = <<1, 2, 3>>
    /\ Consumed = 2
    /\ last.no = 3
    /\ last.how = "frame"
    /\ last.frame.replyTo = 2

====
